---------------------------- MODULE Spec2Model ----------------------------
(***************************************************************************)
(* Model of tmdb_trending_starter.py: fetch the weekly trending titles,    *)
(* build the genre id -> name map, normalize the records into a table      *)
(* sorted by popularity, and tally the cast of the top rows.               *)
(*                                                                         *)
(* Python values are modelled as follows.  A dict is a function whose      *)
(* DOMAIN is the set of keys that are present.  The result of dict.get and *)
(* every cell of a table is an optional value: None is <<>> and a value v  *)
(* is <<v>>.  A DataFrame is [columns, rows].  Genre entries are the       *)
(* {id, name} pairs of the TMDB genre lists.                               *)
(***************************************************************************)
EXTENDS Integers, Sequences, FiniteSets, TLC

VARIABLES
    entry,          \* the function the run was started at
    pc,             \* position in the program
    err,            \* the exception that ended the run, or NoError
    token,          \* os.getenv("TMDB_V4_TOKEN"): None when unset
    requests,       \* the GET requests issued so far: [url, status]
    files,          \* names of the files written under data/
    trending,       \* main: the parsed /trending response
    movie,          \* get_genre_map: the parsed /genre/movie/list response
    tv,             \* get_genre_map: the parsed /genre/tv/list response
    genre_map,      \* genre id -> name
    results,        \* normalize_trending: the input records
    rows,           \* normalize_trending: the list of row dicts built so far
    df,             \* the normalized table
    sample_size,    \* top_cast_from_sample: its sample_size argument
    i,              \* top_cast_from_sample: rows of the sample fully processed
    cast_counts,    \* top_cast_from_sample: the tally, in insertion order
    credits_seen,   \* the credits obtained for each processed row, in order
    sleeps,         \* number of time.sleep(0.2) pauses taken
    cast_df         \* the table returned by top_cast_from_sample

vars == <<entry, pc, err, token, requests, files, trending, movie, tv,
          genre_map, results, rows, df, sample_size, i, cast_counts,
          credits_seen, sleeps, cast_df>>

---------------------------------------------------------------------------
(* Bounds of the model *)

MaxRecords == 3     \* longest list of trending records given to normalize_trending
MaxGenres == 2      \* longest genre list of one taxonomy
MaxRows == 3        \* longest table given to top_cast_from_sample, longest results list of a run of main
MaxSample == 3      \* largest sample_size given to top_cast_from_sample

(* Program constants *)

MainSampleSize == 8     \* main: top_cast_from_sample(df, sample_size=8)
HttpOk == 200           \* fetch_json: the only status that is not an error

---------------------------------------------------------------------------
(* Python values *)

None == <<>>
Some(v) == <<v>>
EmptyDict == [k \in {} |-> 0]
NoError == [type |-> "none"]

\* dict.get(key): None when the key is absent
Get(d, k) == IF k \in DOMAIN d THEN Some(d[k]) ELSE None

\* dict.get(key, default)
GetOr(d, k, default) == IF k \in DOMAIN d THEN d[k] ELSE default

\* a or b, for optional strings: a when it is neither None nor ""
OrStr(a, b) == IF a # None /\ a[1] # "" THEN a ELSE b

\* a or [], for an optional list: the list when it is neither None nor []
OrList(a) == IF a # None /\ a[1] # <<>> THEN a[1] ELSE <<>>

\* bool(s) for an optional string
Truthy(a) == a # None /\ a[1] # ""

Min(a, b) == IF a <= b THEN a ELSE b

Reverse(s) == [k \in 1..Len(s) |-> s[Len(s) + 1 - k]]

Front(s) == SubSeq(s, 1, Len(s) - 1)


SeqsUpTo(S, n) == UNION {[1..k -> S] : k \in 0..n}

---------------------------------------------------------------------------
(* Catalog client *)

API_BASE == "https://api.themoviedb.org/3"

\* a client that does not look at the status
fetch_json_unchecked(path, status, body) == [raised |-> FALSE, value |-> body]

\* fetch_json, given the status and the parsed body the server answers with:
\* the parsed body on 200, RuntimeError carrying the status and the url otherwise
fetch_json(path, status, body) ==
    IF status # HttpOk
    THEN [raised |-> TRUE,
          error |-> [type |-> "RuntimeError", status |-> status,
                     url |-> API_BASE \o path]]
    ELSE [raised |-> FALSE, value |-> body]

\* the entry fetch_json's request leaves in the request log
Request(path, status) == [url |-> API_BASE \o path, status |-> status]

\* get_trending's path
TrendingPath(media_type, time_window) ==
    "/trending/" \o media_type \o "/" \o time_window

---------------------------------------------------------------------------
(* Genre resolver *)

\* {g["id"]: g["name"] for g in genres}: a later entry overrides an earlier one
RECURSIVE DictOf(_)
DictOf(genres) ==
    IF genres = <<>> THEN EmptyDict
    ELSE LET g == genres[Len(genres)]
             d == DictOf(Front(genres))
         IN  [k \in DOMAIN d \cup {g.id} |-> IF k = g.id THEN g.name ELSE d[k]]

\* a merge in which the first mapping keeps its entries
DictUpdate_keep(d, e) ==
    [k \in DOMAIN d \cup DOMAIN e |-> IF k \in DOMAIN d THEN d[k] ELSE e[k]]

\* d.update(e): the keys of both, e's value where both have the key
DictUpdate(d, e) ==
    [k \in DOMAIN d \cup DOMAIN e |-> IF k \in DOMAIN e THEN e[k] ELSE d[k]]

\* the mapping get_genre_map builds from the two parsed responses
MergeGenres(movieBody, tvBody) ==
    DictUpdate(DictOf(GetOr(movieBody, "genres", <<>>)),
               DictOf(GetOr(tvBody, "genres", <<>>)))

---------------------------------------------------------------------------
(* Record normalizer *)

\* sep.join(xs)
RECURSIVE Join(_, _)
Join(sep, xs) ==
    IF xs = <<>> THEN ""
    ELSE IF Len(xs) = 1 THEN xs[1]
    ELSE xs[1] \o sep \o Join(sep, Tail(xs))

\* a lookup that leaves out the ids the genre map does not know
GenreNames_known(genre_ids, gm) ==
    LET known == SelectSeq(genre_ids, LAMBDA g : g \in DOMAIN gm)
    IN  [k \in 1..Len(known) |-> gm[known[k]]]

\* [genre_map.get(gid, str(gid)) for gid in genre_ids]
GenreNames(genre_ids, gm) ==
    [k \in 1..Len(genre_ids) |-> GetOr(gm, genre_ids[k], ToString(genre_ids[k]))]

\* a title that prefers name
Title_name_first(r) == OrStr(Get(r, "name"), Get(r, "title"))

\* title = r.get("title") or r.get("name")
Title(r) == OrStr(Get(r, "title"), Get(r, "name"))

\* date = r.get("release_date") or r.get("first_air_date")
Date(r) == OrStr(Get(r, "release_date"), Get(r, "first_air_date"))

\* the row dict appended for one record
NormalizeRow(r, gm) ==
    [id |-> Get(r, "id"),
     media_type |-> Get(r, "media_type"),
     title |-> Title(r),
     date |-> Date(r),
     popularity |-> Get(r, "popularity"),
     vote_average |-> Get(r, "vote_average"),
     vote_count |-> Get(r, "vote_count"),
     original_language |-> Get(r, "original_language"),
     genres |-> Join("; ", GenreNames(OrList(Get(r, "genre_ids")), gm))]

RowColumns == <<"id", "media_type", "title", "date", "popularity",
                "vote_average", "vote_count", "original_language", "genres">>

\* pd.DataFrame(rows) for a list of dicts: no columns when the list is empty
DataFrame(rowList, columns) ==
    [columns |-> IF rowList = <<>> THEN <<>> ELSE columns, rows |-> rowList]

\* merge of two sorted index lists, the left one first on equal keys
RECURSIVE Merge(_, _, _)
Merge(a, b, key) ==
    IF a = <<>> THEN b
    ELSE IF b = <<>> THEN a
    ELSE IF key[Head(b)] < key[Head(a)]
         THEN <<Head(b)>> \o Merge(a, Tail(b), key)
         ELSE <<Head(a)>> \o Merge(Tail(a), b, key)

\* argsort(kind="mergesort"): stable, ascending
RECURSIVE MergeSort(_, _)
MergeSort(s, key) ==
    IF Len(s) <= 1 THEN s
    ELSE LET h == Len(s) \div 2
         IN  Merge(MergeSort(SubSeq(s, 1, h), key),
                   MergeSort(SubSeq(s, h + 1, Len(s)), key), key)

\* the sort key of each row position (0 stands in for NaN, which is never compared)
PopularityKey(rowList) ==
    [j \in 1..Len(rowList) |->
        IF rowList[j].popularity # None THEN rowList[j].popularity[1] ELSE 0]

\* positions whose popularity is a number, and those where it is None (NaN)
NotNaIdx(rowList) ==
    SelectSeq([j \in 1..Len(rowList) |-> j],
              LAMBDA j : rowList[j].popularity # None)

NaIdx(rowList) ==
    SelectSeq([j \in 1..Len(rowList) |-> j],
              LAMBDA j : rowList[j].popularity = None)

\* a sort that loses the rows without popularity
nargsort_dropna(rowList) ==
    Reverse(MergeSort(Reverse(NotNaIdx(rowList)), PopularityKey(rowList)))

\* a descending sort obtained by reversing an ascending stable sort
nargsort_reversed(rowList) ==
    Reverse(MergeSort(NotNaIdx(rowList), PopularityKey(rowList)))
        \o NaIdx(rowList)

\* the row order sort_values(by=["popularity"], ascending=False,
\* kind="mergesort") chooses: pandas reverses the non-NaN positions, sorts them
\* ascending with the stable sort, reverses the result, and puts NaN last
nargsort(rowList) ==
    Reverse(MergeSort(Reverse(NotNaIdx(rowList)), PopularityKey(rowList)))
        \o NaIdx(rowList)

\* df.sort_values(...).reset_index(drop=True)
sort_values(frame) ==
    LET indexer == nargsort(frame.rows)
    IN  [columns |-> frame.columns,
         rows |-> [k \in 1..Len(indexer) |-> frame.rows[indexer[k]]]]

\* normalize_trending's result for the rows it built
NormalizeResult(rowList) ==
    LET frame == DataFrame(rowList, RowColumns)
    IN  IF frame.rows # <<>> THEN sort_values(frame) ELSE frame

\* normalize_trending as a whole
normalize_trending(recs, gm) ==
    NormalizeResult([k \in 1..Len(recs) |-> NormalizeRow(recs[k], gm)])

---------------------------------------------------------------------------
(* Cast sampler *)

EmptyCredits == [cast |-> <<>>, crew |-> <<>>]

\* a dispatch without the final else branch: whatever is not a movie is fetched as tv
CreditsPath_noelse(media_type, tmdb_id) ==
    IF media_type = Some("movie")
    THEN Some("/movie/" \o ToString(tmdb_id) \o "/credits")
    ELSE Some("/tv/" \o ToString(tmdb_id) \o "/credits")

\* get_credits: the path it fetches, None when it returns the empty credits
\* without a request
CreditsPath(media_type, tmdb_id) ==
    IF media_type = Some("movie")
    THEN Some("/movie/" \o ToString(tmdb_id) \o "/credits")
    ELSE IF media_type = Some("tv")
    THEN Some("/tv/" \o ToString(tmdb_id) \o "/credits")
    ELSE None

\* cast_counts[name] = cast_counts.get(name, 0) + 1
Incr(counts, name) ==
    IF \E k \in 1..Len(counts) : counts[k].name = name
    THEN [k \in 1..Len(counts) |->
            IF counts[k].name = name
            THEN [name |-> name, count |-> counts[k].count + 1]
            ELSE counts[k]]
    ELSE Append(counts, [name |-> name, count |-> 1])

\* a tally that counts a name once per title instead of once per cast entry
CountOne_once(counts, c) ==
    LET name == Get(c, "name")
    IN  IF ~Truthy(name) THEN counts
        ELSE IF \E k \in 1..Len(counts) : counts[k].name = name[1] THEN counts
        ELSE Incr(counts, name[1])

\* the body of the inner loop for one cast entry
CountOne(counts, c) ==
    LET name == Get(c, "name")
    IN  IF ~Truthy(name) THEN counts ELSE Incr(counts, name[1])

\* the inner loop over credits.get("cast", [])
RECURSIVE CountCast(_, _)
CountCast(counts, cast) ==
    IF cast = <<>> THEN counts
    ELSE CountCast(CountOne(counts, Head(cast)), Tail(cast))

\* the orders sort_values("count", ascending=False) may give: the default sort
\* is not stable, so rows of equal count come in any order
SortedByCount(table) ==
    LET n == Len(table)
        ok == {f \in Permutations(1..n) :
                 \A a, b \in 1..n : a < b => table[f[a]].count >= table[f[b]].count}
    IN  {[k \in 1..n |-> table[f[k]]] : f \in ok}

\* the tables top_cast_from_sample may return for a tally
TopCastResults(counts) ==
    IF counts = <<>>
    THEN {[columns |-> <<"name", "count">>, rows |-> <<>>]}
    ELSE {[columns |-> <<"name", "count">>, rows |-> r] : r \in SortedByCount(counts)}

\* df.head(sample_size), for sample_size >= 0: the number of rows it keeps
SampleLen == Min(sample_size, Len(df.rows))

\* the exception int(row["id"]) raises for a missing id: the id column holds
\* None (TypeError) when no row has an id, NaN (ValueError) when some have
IdError ==
    IF \A k \in 1..Len(df.rows) : df.rows[k].id = None
    THEN [type |-> "TypeError"]
    ELSE [type |-> "ValueError"]

---------------------------------------------------------------------------
(* What the environment and the server may supply *)

\* os.getenv("TMDB_V4_TOKEN"): unset, set to the empty string, set
Tokens == {None, Some(""), Some("tok")}

\* the status of a response
StatusCodes == {HttpOk, 401, 404}

\* trending records: every field may be missing, title and name may be empty,
\* genre ids may be unknown to the genre map
RecordPool ==
    { [id |-> 1, media_type |-> "movie", title |-> "Foo", name |-> "Bar",
       release_date |-> "2024-05-01", first_air_date |-> "2023-01-01",
       popularity |-> 50, vote_average |-> 7, vote_count |-> 120,
       original_language |-> "en", genre_ids |-> <<28, 9999>>],
      [id |-> 2, media_type |-> "tv", name |-> "Bar",
       first_air_date |-> "2023-01-01", popularity |-> 50, vote_average |-> 8,
       vote_count |-> 40, original_language |-> "ja", genre_ids |-> <<>>],
      [id |-> 3, media_type |-> "person", name |-> "", popularity |-> 20],
      [media_type |-> "movie", title |-> "", release_date |-> "",
       popularity |-> 10, genre_ids |-> <<12, 28>>],
      [id |-> 5, media_type |-> "tv", title |-> "", name |-> "Baz",
       genre_ids |-> <<28>>],
      [id |-> 6, title |-> "Qux", popularity |-> 20, genre_ids |-> <<9999>>],
      [id |-> 7, media_type |-> "movie", popularity |-> 50],
      [id |-> 8, media_type |-> "movie", title |-> "Foo", name |-> "",
       popularity |-> 10, genre_ids |-> <<28, 28>>],
      [id |-> 9, media_type |-> "series", title |-> "", name |-> "",
       popularity |-> 20, genre_ids |-> <<9999, 12>>] }

\* the records a run of main is given: a movie, a series, a person, and a movie
\* without id
MainPool == {r \in RecordPool : GetOr(r, "id", 0) \in {0, 1, 2, 3}}

\* genre maps given to normalize_trending
GenreMaps ==
    { EmptyDict, [k \in {28} |-> "Action"],
      [k \in {12, 28} |-> IF k = 12 THEN "Adventure" ELSE "Action"] }

\* the parsed /trending response: with or without "results"
TrendingBodies ==
    {[page |-> 1]}
        \cup {[page |-> 1, results |-> rs] : rs \in SeqsUpTo(MainPool, MaxRows)}

GenreIds == {12, 28}

\* a parsed genre list response: with or without "genres"
GenreBodies(names, n) ==
    {[status_message |-> "none"]}
        \cup {[genres |-> gs] : gs \in SeqsUpTo([id : GenreIds, name : names], n)}

\* the movie and the tv genre list; a run of main is given at most one genre each
MovieBodies ==
    IF entry = "main" THEN GenreBodies({"Action"}, 1)
    ELSE GenreBodies({"Action", "Drama"}, MaxGenres)

TvBodies ==
    IF entry = "main" THEN GenreBodies({"Action & Adventure"}, 1)
    ELSE GenreBodies({"Action", "Dramatic Series"}, MaxGenres)

\* a parsed credits response: with or without "cast", names missing or empty
CreditBodies ==
    { [cast |-> <<[name |-> "X"], [name |-> "Y"]>>, crew |-> <<>>],
      [cast |-> <<[name |-> "X"]>>, crew |-> <<>>],
      [cast |-> <<[name |-> ""], [character |-> "c"], [name |-> "Y"],
                  [name |-> "Y", character |-> "d"]>>, crew |-> <<>>],
      [id |-> 1] }

EmptyFrame == [columns |-> <<>>, rows |-> <<>>]

---------------------------------------------------------------------------
(* The program *)

\* where a function continues when it returns: in main, or nowhere when the
\* run was started at the function itself
Return(next) == IF entry = "main" THEN next ELSE "return"

\* a credential check that only notices an unset variable
TokenMissing_unset(t) == t = None

\* main: not os.getenv("TMDB_V4_TOKEN")
TokenMissing(t) == ~Truthy(t)

\* main: the pre-flight credential check
MainCheckToken ==
    /\ pc = "main"
    /\ IF TokenMissing(token)
       THEN err' = [type |-> "SystemExit"] /\ pc' = "exit"
       ELSE pc' = "get_trending" /\ UNCHANGED err
    /\ UNCHANGED <<entry, token, requests, files, trending, movie, tv, genre_map,
                   results, rows, df, sample_size, i, cast_counts, credits_seen,
                   sleeps, cast_df>>

\* main: trending = get_trending(media_type="all", time_window="week")
MainGetTrending ==
    /\ pc = "get_trending"
    /\ \E status \in StatusCodes, body \in TrendingBodies :
         LET path == TrendingPath("all", "week")
             r == fetch_json(path, status, body)
         IN  /\ requests' = Append(requests, Request(path, status))
             /\ IF r.raised
                THEN err' = r.error /\ pc' = "exit" /\ UNCHANGED trending
                ELSE trending' = r.value /\ pc' = "write_raw" /\ UNCHANGED err
    /\ UNCHANGED <<entry, token, files, movie, tv, genre_map, results, rows, df,
                   sample_size, i, cast_counts, credits_seen, sleeps, cast_df>>

\* main: write trending_week_raw.json, then call get_genre_map
MainWriteRaw ==
    /\ pc = "write_raw"
    /\ files' = files \cup {"trending_week_raw.json"}
    /\ pc' = "genre_movie"
    /\ UNCHANGED <<entry, err, token, requests, trending, movie, tv, genre_map,
                   results, rows, df, sample_size, i, cast_counts, credits_seen,
                   sleeps, cast_df>>

\* get_genre_map: movie = fetch_json("/genre/movie/list")
GenreFetchMovie ==
    /\ pc = "genre_movie"
    /\ \E status \in StatusCodes, body \in MovieBodies :
         LET path == "/genre/movie/list"
             r == fetch_json(path, status, body)
         IN  /\ requests' = Append(requests, Request(path, status))
             /\ IF r.raised
                THEN err' = r.error /\ pc' = "exit" /\ UNCHANGED movie
                ELSE movie' = r.value /\ pc' = "genre_tv" /\ UNCHANGED err
    /\ UNCHANGED <<entry, token, files, trending, tv, genre_map, results, rows,
                   df, sample_size, i, cast_counts, credits_seen, sleeps, cast_df>>

\* get_genre_map: tv = fetch_json("/genre/tv/list")
GenreFetchTv ==
    /\ pc = "genre_tv"
    /\ \E status \in StatusCodes, body \in TvBodies :
         LET path == "/genre/tv/list"
             r == fetch_json(path, status, body)
         IN  /\ requests' = Append(requests, Request(path, status))
             /\ IF r.raised
                THEN err' = r.error /\ pc' = "exit" /\ UNCHANGED tv
                ELSE tv' = r.value /\ pc' = "genre_build" /\ UNCHANGED err
    /\ UNCHANGED <<entry, token, files, trending, movie, genre_map, results, rows,
                   df, sample_size, i, cast_counts, credits_seen, sleeps, cast_df>>

\* get_genre_map: merge the two lists, write genres.json, return the map
GenreBuild ==
    /\ pc = "genre_build"
    /\ genre_map' = MergeGenres(movie, tv)
    /\ files' = files \cup {"genres.json"}
    /\ pc' = Return("normalize_call")
    /\ UNCHANGED <<entry, err, token, requests, trending, movie, tv, results,
                   rows, df, sample_size, i, cast_counts, credits_seen, sleeps,
                   cast_df>>

\* main: results = trending.get("results", []); call normalize_trending
MainNormalizeCall ==
    /\ pc = "normalize_call"
    /\ results' = GetOr(trending, "results", <<>>)
    /\ rows' = <<>>
    /\ pc' = "normalize_loop"
    /\ UNCHANGED <<entry, err, token, requests, files, trending, movie, tv,
                   genre_map, df, sample_size, i, cast_counts, credits_seen,
                   sleeps, cast_df>>

\* normalize_trending: one turn of the loop over the records
NormalizeLoop ==
    /\ pc = "normalize_loop"
    /\ Len(rows) < Len(results)
    /\ rows' = Append(rows, NormalizeRow(results[Len(rows) + 1], genre_map))
    /\ UNCHANGED <<entry, pc, err, token, requests, files, trending, movie, tv,
                   genre_map, results, df, sample_size, i, cast_counts,
                   credits_seen, sleeps, cast_df>>

\* normalize_trending: build the table, sort it when it is not empty, return it
NormalizeSort ==
    /\ pc = "normalize_loop"
    /\ Len(rows) = Len(results)
    /\ df' = NormalizeResult(rows)
    /\ pc' = Return("write_csv")
    /\ UNCHANGED <<entry, err, token, requests, files, trending, movie, tv,
                   genre_map, results, rows, sample_size, i, cast_counts,
                   credits_seen, sleeps, cast_df>>

\* main: write trending_week_clean.csv; call top_cast_from_sample(df, 8) unless
\* the table is empty
MainWriteCsv ==
    /\ pc = "write_csv"
    /\ files' = files \cup {"trending_week_clean.csv"}
    /\ IF df.rows # <<>>
       THEN /\ pc' = "cast_loop"
            /\ sample_size' = MainSampleSize
            /\ i' = 0
            /\ cast_counts' = <<>>
       ELSE pc' = "done" /\ UNCHANGED <<sample_size, i, cast_counts>>
    /\ UNCHANGED <<entry, err, token, requests, trending, movie, tv, genre_map,
                   results, rows, df, credits_seen, sleeps, cast_df>>

\* top_cast_from_sample: a turn of the loop for a row without id:
\* int(row["id"]) raises before get_credits is called
CastIdError ==
    /\ pc = "cast_loop"
    /\ i < SampleLen
    /\ df.rows[i + 1].id = None
    /\ err' = IdError
    /\ pc' = "exit"
    /\ UNCHANGED <<entry, token, requests, files, trending, movie, tv, genre_map,
                   results, rows, df, sample_size, i, cast_counts, credits_seen,
                   sleeps, cast_df>>

\* top_cast_from_sample: a turn of the loop for a row get_credits answers
\* without a request
CastNoFetch ==
    /\ pc = "cast_loop"
    /\ i < SampleLen
    /\ df.rows[i + 1].id # None
    /\ CreditsPath(df.rows[i + 1].media_type, df.rows[i + 1].id[1]) = None
    /\ cast_counts' = CountCast(cast_counts, GetOr(EmptyCredits, "cast", <<>>))
    /\ credits_seen' = Append(credits_seen, EmptyCredits)
    /\ sleeps' = sleeps + 1
    /\ i' = i + 1
    /\ UNCHANGED <<entry, pc, err, token, requests, files, trending, movie, tv,
                   genre_map, results, rows, df, sample_size, cast_df>>

\* top_cast_from_sample: a turn of the loop for a row whose credits are fetched
CastFetch ==
    /\ pc = "cast_loop"
    /\ i < SampleLen
    /\ df.rows[i + 1].id # None
    /\ CreditsPath(df.rows[i + 1].media_type, df.rows[i + 1].id[1]) # None
    /\ \E status \in StatusCodes, body \in CreditBodies :
         LET path == CreditsPath(df.rows[i + 1].media_type, df.rows[i + 1].id[1])[1]
             r == fetch_json(path, status, body)
         IN  /\ requests' = Append(requests, Request(path, status))
             /\ IF r.raised
                THEN /\ err' = r.error
                     /\ pc' = "exit"
                     /\ UNCHANGED <<cast_counts, credits_seen, sleeps, i>>
                ELSE /\ cast_counts' =
                            CountCast(cast_counts, GetOr(r.value, "cast", <<>>))
                     /\ credits_seen' = Append(credits_seen, r.value)
                     /\ sleeps' = sleeps + 1
                     /\ i' = i + 1
                     /\ UNCHANGED <<pc, err>>
    /\ UNCHANGED <<entry, token, files, trending, movie, tv, genre_map, results,
                   rows, df, sample_size, cast_df>>

\* top_cast_from_sample: after the loop, build the table of counts and return it
CastFinish ==
    /\ pc = "cast_loop"
    /\ i = SampleLen
    /\ cast_df' \in TopCastResults(cast_counts)
    /\ pc' = Return("write_cast")
    /\ UNCHANGED <<entry, err, token, requests, files, trending, movie, tv,
                   genre_map, results, rows, df, sample_size, i, cast_counts,
                   credits_seen, sleeps>>

\* main: write sample_cast_counts.csv
MainWriteCast ==
    /\ pc = "write_cast"
    /\ files' = files \cup {"sample_cast_counts.csv"}
    /\ pc' = "done"
    /\ UNCHANGED <<entry, err, token, requests, trending, movie, tv, genre_map,
                   results, rows, df, sample_size, i, cast_counts, credits_seen,
                   sleeps, cast_df>>

---------------------------------------------------------------------------
(* Specifications *)

\* nothing fetched, written or computed yet
Fresh ==
    /\ err = NoError
    /\ requests = <<>>
    /\ files = {}
    /\ trending = EmptyDict
    /\ movie = EmptyDict
    /\ tv = EmptyDict
    /\ rows = <<>>
    /\ i = 0
    /\ cast_counts = <<>>
    /\ credits_seen = <<>>
    /\ sleeps = 0
    /\ cast_df = EmptyFrame

\* a run of the script: main()
Init ==
    /\ entry = "main"
    /\ pc = "main"
    /\ token \in Tokens
    /\ genre_map = EmptyDict
    /\ results = <<>>
    /\ df = EmptyFrame
    /\ sample_size = 0
    /\ Fresh

Next ==
    \/ MainCheckToken
    \/ MainGetTrending
    \/ MainWriteRaw
    \/ GenreFetchMovie
    \/ GenreFetchTv
    \/ GenreBuild
    \/ MainNormalizeCall
    \/ NormalizeLoop
    \/ NormalizeSort
    \/ MainWriteCsv
    \/ CastIdError
    \/ CastNoFetch
    \/ CastFetch
    \/ CastFinish
    \/ MainWriteCast

Spec == Init /\ [][Next]_vars

\* a call of normalize_trending(results, genre_map)
InitNormalize ==
    /\ entry = "normalize_trending"
    /\ pc = "normalize_loop"
    /\ token = Some("tok")
    /\ genre_map \in GenreMaps
    /\ results \in SeqsUpTo(RecordPool, MaxRecords)
    /\ df = EmptyFrame
    /\ sample_size = 0
    /\ Fresh

NextNormalize == NormalizeLoop \/ NormalizeSort

SpecNormalize == InitNormalize /\ [][NextNormalize]_vars

\* a call of get_genre_map()
InitGenre ==
    /\ entry = "get_genre_map"
    /\ pc = "genre_movie"
    /\ token = Some("tok")
    /\ genre_map = EmptyDict
    /\ results = <<>>
    /\ df = EmptyFrame
    /\ sample_size = 0
    /\ Fresh

NextGenre == GenreFetchMovie \/ GenreFetchTv \/ GenreBuild

SpecGenre == InitGenre /\ [][NextGenre]_vars

\* a call of top_cast_from_sample(df, sample_size) on a table that
\* normalize_trending returned
InitCast ==
    /\ entry = "top_cast_from_sample"
    /\ pc = "cast_loop"
    /\ token = Some("tok")
    /\ genre_map = EmptyDict
    /\ results \in SeqsUpTo(RecordPool, MaxRows)
    /\ df = normalize_trending(results, genre_map)
    /\ sample_size \in 0..MaxSample
    /\ Fresh

NextCast == CastIdError \/ CastNoFetch \/ CastFetch \/ CastFinish

SpecCast == InitCast /\ [][NextCast]_vars

---------------------------------------------------------------------------
(* normalize_trending: SpecNormalize *)

\* C1: for every list of records and every genre map, normalize_trending
\* returns exactly as many rows as it was given records: the loop appends one
\* row per record, the sort neither drops nor adds a row, and no record raises.
C1_RowCount ==
    /\ err = NoError
    /\ pc = "normalize_loop" => Len(rows) <= Len(results)
    /\ pc = "return" => Len(rows) = Len(results) /\ Len(df.rows) = Len(results)

\* a call that returned three rows for three records, one without id and one
\* without popularity
C1_Witness ==
    /\ pc = "return"
    /\ Len(results) = 3
    /\ Len(df.rows) = 3
    /\ \E k \in 1..3 : "id" \notin DOMAIN results[k]
    /\ \E k \in 1..3 : "popularity" \notin DOMAIN results[k]

\* C2: for a non-empty input the returned rows are a permutation of the
\* per-record rows in descending order of popularity, rows of equal popularity
\* in their input order (the rows without popularity come last, in input order).
C2_SortedStable ==
    (pc = "return" /\ results # <<>>) =>
        \E f \in Permutations(1..Len(rows)) :
            /\ Len(df.rows) = Len(rows)
            /\ \A k \in 1..Len(rows) : df.rows[k] = rows[f[k]]
            /\ \A a, b \in 1..Len(rows) :
                 a < b =>
                    LET pa == rows[f[a]].popularity
                        pb == rows[f[b]].popularity
                    IN  /\ (pa # None /\ pb # None) => pa[1] >= pb[1]
                        /\ pa = None => pb = None
                        /\ pa = pb => f[a] < f[b]

\* two different records of equal popularity followed by a more popular one
C2_Witness ==
    /\ pc = "return"
    /\ Len(results) = 3
    /\ rows[1] # rows[2]
    /\ rows[1].popularity = Some(20)
    /\ rows[2].popularity = Some(20)
    /\ rows[3].popularity = Some(50)
    /\ df.rows = <<rows[3], rows[1], rows[2]>>

\* the entry the genres string must hold for the k-th genre id of record r
C3_Entry(r, gm, k) ==
    IF r.genre_ids[k] \in DOMAIN gm THEN gm[r.genre_ids[k]]
    ELSE ToString(r.genre_ids[k])

\* the first n entries, each but the first preceded by "; "
RECURSIVE C3_Joined(_, _, _)
C3_Joined(r, gm, n) ==
    IF n = 1 THEN C3_Entry(r, gm, 1)
    ELSE C3_Joined(r, gm, n - 1) \o "; " \o C3_Entry(r, gm, n)

\* C3: the genres string of a row has one entry per id of the record's
\* genre_ids, in order, joined with "; ": the mapped name when the id is a key
\* of the genre map, the id's string form otherwise; it is empty when
\* genre_ids is absent or empty.
C3_Genres ==
    \A k \in 1..Len(rows) :
        LET r == results[k]
        IN  IF "genre_ids" \notin DOMAIN r \/ r.genre_ids = <<>>
            THEN rows[k].genres = ""
            ELSE rows[k].genres = C3_Joined(r, genre_map, Len(r.genre_ids))

\* genre_ids [28, 9999] under the map {28: "Action"} gave "Action; 9999", and
\* a record without genre_ids gave ""
C3_Witness ==
    /\ DOMAIN genre_map = {28}
    /\ \E k \in 1..Len(rows) :
         /\ "genre_ids" \in DOMAIN results[k]
         /\ results[k].genre_ids = <<28, 9999>>
         /\ rows[k].genres = "Action; 9999"
    /\ \E k \in 1..Len(rows) :
         "genre_ids" \notin DOMAIN results[k] /\ rows[k].genres = ""

\* C10: the normalized title is the record's title when title is present and
\* non-empty, otherwise the record's name, otherwise null.
C10_Title ==
    \A k \in 1..Len(rows) :
        LET r == results[k]
        IN  rows[k].title =
                IF "title" \in DOMAIN r /\ r.title # "" THEN Some(r.title)
                ELSE IF "name" \in DOMAIN r THEN Some(r.name)
                ELSE None

\* a record with title "Foo" and name "Bar" became a row titled "Foo", and a
\* record with only the name "Bar" a row titled "Bar"
C10_Witness ==
    /\ \E k \in 1..Len(rows) :
         /\ Get(results[k], "title") = Some("Foo")
         /\ Get(results[k], "name") = Some("Bar")
         /\ rows[k].title = Some("Foo")
    /\ \E k \in 1..Len(rows) :
         /\ "title" \notin DOMAIN results[k]
         /\ Get(results[k], "name") = Some("Bar")
         /\ rows[k].title = Some("Bar")

---------------------------------------------------------------------------
(* get_genre_map: SpecGenre *)

\* the name the last entry of a genre list gives an id
C9_NameIn(genres, id, name) ==
    \E k \in 1..Len(genres) :
        /\ genres[k].id = id
        /\ genres[k].name = name
        /\ \A j \in (k + 1)..Len(genres) : genres[j].id # id

\* C9: the map get_genre_map returns has exactly the ids of the movie and of
\* the tv taxonomy; an id of the tv taxonomy maps to the tv name, also when the
\* movie taxonomy has it, and an id of the movie taxonomy alone to the movie name.
C9_Merged ==
    pc = "return" =>
        LET m == GetOr(movie, "genres", <<>>)
            t == GetOr(tv, "genres", <<>>)
            tvIds == {t[k].id : k \in 1..Len(t)}
            movieIds == {m[k].id : k \in 1..Len(m)}
        IN  /\ DOMAIN genre_map = movieIds \cup tvIds
            /\ \A id \in tvIds : C9_NameIn(t, id, genre_map[id])
            /\ \A id \in movieIds \ tvIds : C9_NameIn(m, id, genre_map[id])

\* movie {12: "Drama", 28: "Action"} merged with tv {12: "Dramatic Series"}
C9_Witness ==
    /\ pc = "return"
    /\ movie = [genres |-> <<[id |-> 12, name |-> "Drama"],
                             [id |-> 28, name |-> "Action"]>>]
    /\ tv = [genres |-> <<[id |-> 12, name |-> "Dramatic Series"]>>]
    /\ genre_map[12] = "Dramatic Series"
    /\ genre_map[28] = "Action"

---------------------------------------------------------------------------
(* main: Spec *)

\* C8: with TMDB_V4_TOKEN unset or empty, main stops at the credential check
\* with SystemExit: no request is ever issued and no file is ever written.
C8_Preflight ==
    ~Truthy(token) =>
        /\ requests = <<>>
        /\ files = {}
        /\ pc \in {"main", "exit"}
        /\ pc = "exit" => err = [type |-> "SystemExit"]

\* the run with the variable set to the empty string has been aborted
C8_Witness ==
    /\ token = Some("")
    /\ pc = "exit"
    /\ err = [type |-> "SystemExit"]
    /\ requests = <<>>

C4_TrendingUrl == API_BASE \o "/trending/all/week"

C4_GenreUrls == {API_BASE \o "/genre/movie/list", API_BASE \o "/genre/tv/list"}

\* C4: a response other than 200 ends the run with a RuntimeError carrying that
\* status; it is the last request of the run, and the files are those written
\* before the failing stage: none when the trending fetch failed, only
\* trending_week_raw.json when a genre fetch failed, and no
\* sample_cast_counts.csv when a credits fetch failed.
C4_FailFast ==
    \A k \in 1..Len(requests) :
        requests[k].status # HttpOk =>
            /\ k = Len(requests)
            /\ pc = "exit"
            /\ err = [type |-> "RuntimeError", status |-> requests[k].status,
                      url |-> requests[k].url]
            /\ IF requests[k].url = C4_TrendingUrl THEN files = {}
               ELSE IF requests[k].url \in C4_GenreUrls
               THEN files = {"trending_week_raw.json"}
               ELSE files = {"trending_week_raw.json", "genres.json",
                             "trending_week_clean.csv"}

\* a credits fetch answered 404 after one that was answered 200
C4_Witness ==
    /\ pc = "exit"
    /\ Len(requests) = 5
    /\ requests[4].status = HttpOk
    /\ requests[5].status = 404
    /\ err.type = "RuntimeError"
    /\ "sample_cast_counts.csv" \notin files

\* C5: with the credential set and every response 200, no run ends in an
\* error, whatever fields the trending records lack.
C5_RecordsNeverFatal ==
    (Truthy(token) /\ \A k \in 1..Len(requests) : requests[k].status = HttpOk)
        => err = NoError

---------------------------------------------------------------------------
(* top_cast_from_sample: SpecCast *)

\* the urls requested for the first n rows of the table when the media types
\* of tvTypes go to the tv credits endpoint
RECURSIVE C6_Urls(_, _)
C6_Urls(n, tvTypes) ==
    IF n = 0 THEN <<>>
    ELSE LET row == df.rows[n]
             prev == C6_Urls(n - 1, tvTypes)
         IN  IF row.media_type = Some("movie")
             THEN Append(prev, API_BASE \o "/movie/" \o ToString(row.id[1]) \o "/credits")
             ELSE IF row.media_type \in {Some(t) : t \in tvTypes}
             THEN Append(prev, API_BASE \o "/tv/" \o ToString(row.id[1]) \o "/credits")
             ELSE prev

\* the rows get_credits was called for: those fully processed, and the one
\* whose fetch failed
C6_Dispatched == IF err.type = "RuntimeError" THEN i + 1 ELSE i

C6_Requested == [k \in 1..Len(requests) |-> requests[k].url]

\* C6 as stated: "series" rows are fetched from the tv credits endpoint
C6_SeriesFetched == C6_Requested = C6_Urls(C6_Dispatched, {"tv", "series"})

\* C6, amended: the rows are taken in table order from the first sample_size
\* rows; each row get_credits is called for issues exactly one fetch, to the
\* movie credits endpoint with its id when its media_type is "movie", to the tv
\* credits endpoint with its id when it is "tv"; any other media_type, "series"
\* and "person" included, gives the empty credits without a request; no row
\* beyond the first sample_size is fetched, and a call that returns has
\* processed all of the first sample_size rows.
C6_Dispatch ==
    /\ C6_Dispatched <= SampleLen
    /\ C6_Requested = C6_Urls(C6_Dispatched, {"tv"})
    /\ Len(credits_seen) = i
    /\ \A k \in 1..i :
         df.rows[k].media_type \notin {Some("movie"), Some("tv")}
            => credits_seen[k] = EmptyCredits
    /\ pc = "return" => i = SampleLen

\* a returned call with sample_size 2 on a movie row, a "series" row and a tv
\* row: one request, for the movie
C6_Witness ==
    /\ pc = "return"
    /\ sample_size = 2
    /\ Len(df.rows) = 3
    /\ df.rows[1].media_type = Some("movie")
    /\ df.rows[2].media_type = Some("series")
    /\ df.rows[3].media_type = Some("tv")
    /\ df.rows[3].id # None
    /\ C6_Requested = <<API_BASE \o "/movie/1/credits">>
    /\ credits_seen[2] = EmptyCredits

\* the cast entries with a non-empty name among the credits obtained
C7_Named ==
    {e \in UNION {{<<j, k>> : k \in 1..Len(GetOr(credits_seen[j], "cast", <<>>))} :
                    j \in 1..Len(credits_seen)} :
        LET c == credits_seen[e[1]].cast[e[2]]
        IN  "name" \in DOMAIN c /\ c.name # ""}

C7_NameOf(e) == credits_seen[e[1]].cast[e[2]].name

\* C7: the table top_cast_from_sample returns has the columns name and count
\* and one row per non-empty name among the cast entries of the credits of the
\* first sample_size rows; its count is the number of those entries, at least
\* one; the rows are in descending order of count (no row when there is no name).
C7_Tally ==
    pc = "return" =>
        /\ Len(credits_seen) = SampleLen
        /\ cast_df.columns = <<"name", "count">>
        /\ {cast_df.rows[k].name : k \in 1..Len(cast_df.rows)}
              = {C7_NameOf(e) : e \in C7_Named}
        /\ \A k \in 1..Len(cast_df.rows) :
             /\ cast_df.rows[k].count
                  = Cardinality({e \in C7_Named : C7_NameOf(e) = cast_df.rows[k].name})
             /\ cast_df.rows[k].count >= 1
             /\ \A j \in 1..Len(cast_df.rows) :
                  /\ j < k => cast_df.rows[j].count >= cast_df.rows[k].count
                  /\ j # k => cast_df.rows[j].name # cast_df.rows[k].name

\* credits with the cast X, Y and then X gave X: 2 before Y: 1
C7_Witness ==
    /\ pc = "return"
    /\ Len(credits_seen) = 2
    /\ GetOr(credits_seen[1], "cast", <<>>) = <<[name |-> "X"], [name |-> "Y"]>>
    /\ GetOr(credits_seen[2], "cast", <<>>) = <<[name |-> "X"]>>
    /\ cast_df.rows = <<[name |-> "X", count |-> 2], [name |-> "Y", count |-> 1]>>

===========================================================================
